---- MODULE Spec2Model ----
(***************************************************************************)
(* Firmware-update orchestration of redfish-core/lib/update_service.hpp:   *)
(* the single-flight guard (fwUpdateInProgress), the two session matchers, *)
(* the availability timer, the owner lookup and the Task callback.         *)
(*                                                                         *)
(* All callbacks run serially on one event loop, so every handler is one   *)
(* atomic action.  A handler is written as a function from the state       *)
(* record it finds to the state record it leaves; the field fx of that     *)
(* record lists, in the order of the code, what the handler did: the       *)
(* messages it wrote to its client response, the bus calls it issued, the  *)
(* calls of cleanUp.  An action commits the record its handler returns.    *)
(***************************************************************************)
EXTENDS Integers, Sequences, FiniteSets, TLC

\* Number of requests alive at a time: a request is alive from its handler
\* until no matcher, timer or pending bus call holds its asyncResp any more.
MaxReq == 2
\* Number of owner lookups (getDbusObject calls) a run issues.
MaxLookups == 2
\* Number of messages a Task collects.
MaxMessages == 3

\* Task deadlines in minutes: startTimer and the progress re-arm (5 minutes),
\* the Staged re-arm (5 hours).
ShortDeadline == 5
LongDeadline == 300

Reqs == 1..MaxReq

VARIABLES
    fwUpdateInProgress,   \* update_service.hpp:51
    fwUpdateMatcher,      \* :46  0 = nullptr, r = match whose callback holds request r
    fwUpdateErrorMatcher, \* :48  0 = nullptr, r = match whose callback holds request r
    fwAvailableTimer,     \* :54  0 = nullptr, r = the timer request r created
    wait,                 \* the async_wait of request r's timer (:289)
    lookups,              \* getDbusObject calls of request r in flight (:101)
    download,             \* DownloadViaTFTP call of request r in flight (:510)
    tasks,                \* the Tasks created (:140), in creation order
    waiting               \* the admitted updates that have reached no outcome yet

vars == <<fwUpdateInProgress, fwUpdateMatcher, fwUpdateErrorMatcher,
          fwAvailableTimer, wait, lookups, download, tasks, waiting>>

\* The state as one record; fx collects the handler's effects in order.
\* asyncResp: the handler holds a response (a valid pointer); every caller of
\* monitorForSoftwareAvailable in this file passes one.
Cur ==
    [fwUpdateInProgress |-> fwUpdateInProgress,
     fwUpdateMatcher |-> fwUpdateMatcher,
     fwUpdateErrorMatcher |-> fwUpdateErrorMatcher,
     fwAvailableTimer |-> fwAvailableTimer,
     wait |-> wait, lookups |-> lookups, download |-> download,
     tasks |-> tasks, waiting |-> waiting, asyncResp |-> TRUE, fx |-> <<>>]

\* The session: guard, matchers, timer and the timers' waits.
Session(s) ==
    <<s.fwUpdateInProgress, s.fwUpdateMatcher, s.fwUpdateErrorMatcher,
      s.fwAvailableTimer, s.wait>>

\* An effect is a pair <<what, argument>>.
Fx(s, what, arg) == [s EXCEPT !.fx = Append(@, <<what, arg>>)]

\* messages::xxx(asyncResp->res, ...): one message written to the response
\* of the request the handler holds.
Respond(s, msg) == Fx(s, "respond", msg)

\* if (asyncResp) { messages::xxx(asyncResp->res, ...); }
Reply(s, msg) == IF s.asyncResp THEN Respond(s, msg) ELSE s

\* The messages a handler wrote to its response, in order.
Written(s) ==
    LET w == SelectSeq(s.fx, LAMBDA e : e[1] = "respond")
    IN [i \in 1..Len(w) |-> w[i][2]]

\* How often a handler did something.
Count(s, what) == Len(SelectSeq(s.fx, LAMBDA e : e[1] = what))

\* The place in fx of the first effect of a kind, 0 when there is none.
First(s, what) ==
    IF Count(s, what) = 0 THEN 0
    ELSE CHOOSE i \in 1..Len(s.fx) :
            /\ s.fx[i][1] = what
            /\ \A j \in 1..(i - 1) : s.fx[j][1] # what

\* Update r reaches an outcome: it is handed off to a Task, fails or times
\* out.
Outcome(s, r) == [s EXCEPT !.waiting = @ \ {r}]

\* Request r is alive: some callback still holds its asyncResp, or the
\* timer it created is still the one fwAvailableTimer owns.
Alive(s, r) ==
    \/ s.wait[r] \in {"pending", "expired", "aborted"}
    \/ s.lookups[r] > 0
    \/ s.download[r]
    \/ r \in {s.fwUpdateMatcher, s.fwUpdateErrorMatcher, s.fwAvailableTimer}

\* The handler returned: requests that are no longer alive are gone.
Return(s) ==
    [s EXCEPT !.waiting = {r \in @ : Alive(s, r)}]

Commit(s) ==
    /\ fwUpdateInProgress' = s.fwUpdateInProgress
    /\ fwUpdateMatcher' = s.fwUpdateMatcher
    /\ fwUpdateErrorMatcher' = s.fwUpdateErrorMatcher
    /\ fwAvailableTimer' = s.fwAvailableTimer
    /\ wait' = s.wait
    /\ lookups' = s.lookups
    /\ download' = s.download
    /\ tasks' = s.tasks
    /\ waiting' = Return(s).waiting

\* A variant that flips the guard in the place of clearing it.
cleanUpToggles(s) ==
    Fx([s EXCEPT !.fwUpdateInProgress = ~@,
                 !.fwUpdateMatcher = 0,
                 !.fwUpdateErrorMatcher = 0], "cleanUp", "")

cleanUp(s) ==
    Fx([s EXCEPT !.fwUpdateInProgress = FALSE,
                 !.fwUpdateMatcher = 0,
                 !.fwUpdateErrorMatcher = 0], "cleanUp", "")

\* fwAvailableTimer = t: the unique_ptr drops the timer it held.  Destroying a
\* steady_timer cancels its pending wait (the handler is queued with
\* operation_aborted); a handler already queued by expiry keeps its result.
SetTimer(s, t) ==
    LET old == s.fwAvailableTimer
        s1 == IF old # 0 /\ s.wait[old] = "pending"
              THEN [s EXCEPT !.wait[old] = "aborted"] ELSE s
    IN [s1 EXCEPT !.fwAvailableTimer = t]

\* A variant without the fwUpdateInProgress test of lines 275-282.
monitorWithoutGuard(s, r) ==
    LET s1 == SetTimer(s, r)
        s2 == Fx([s1 EXCEPT !.wait[r] = "pending"], "async_wait", "")
        s3 == [s2 EXCEPT !.fwUpdateInProgress = TRUE,
                         !.waiting = @ \cup {r}]
    IN Fx([s3 EXCEPT !.fwUpdateMatcher = r,
                     !.fwUpdateErrorMatcher = r], "match", "")

monitorForSoftwareAvailable(s, r) ==
    IF s.fwUpdateInProgress
    THEN Reply(s, "ServiceTemporarilyUnavailable 30")
    ELSE LET s1 == SetTimer(s, r)
             s2 == Fx([s1 EXCEPT !.wait[r] = "pending"], "async_wait", "")
             s3 == [s2 EXCEPT !.fwUpdateInProgress = TRUE,
                              !.waiting = @ \cup {r}]
         IN Fx([s3 EXCEPT !.fwUpdateMatcher = r,
                          !.fwUpdateErrorMatcher = r], "match", "")

\* bad: the stream is bad after the write (out.bad()).
uploadImageFile(s, r, bad) ==
    LET s1 == Fx(s, "writeImage", "")
    IN IF bad THEN cleanUp(Respond(Outcome(s1, r), "InternalError"))
       ELSE s1

\* activateImage: a fire-and-forget setProperty; its callback only logs.
activateImage(s) == Fx(s, "activateImage", "")

\* A Task as createTask and startTimer(5 min) leave it.
NewTask ==
    [state |-> "Running", status |-> "OK", percentComplete |-> 0,
     messages |-> <<>>, deadline |-> ShortDeadline, match |-> TRUE]

\* if (asyncResp) { createTask(...); startTimer(5 min); populateResp(res); }
createTask(s) ==
    IF s.asyncResp
    THEN Respond(Fx([s EXCEPT !.tasks = Append(@, NewTask)],
                    "createTask", ""), "TaskLocation")
    ELSE s

\* softwareInterfaceAdded: the fwUpdateMatcher callback of request r.  An
\* InterfacesAdded signal that carries the Activation interface starts one
\* owner lookup; any other signal does nothing.
softwareInterfaceAdded(s, r, hasActivation) ==
    IF hasActivation
    THEN Fx([s EXCEPT !.lookups[r] = @ + 1], "getDbusObject", "")
    ELSE s

\* What an owner lookup hands to its callback: an error code, or objInfo
\* with 0, 1 or 2 services.
LookupResults == {"ec", "0", "1", "2"}

\* A variant that creates the Task before it issues the activation request.
afterGetDbusObjectTaskFirst(s, r, result) ==
    LET s0 == [s EXCEPT !.lookups[r] = @ - 1]
    IN IF result # "1"
       THEN cleanUp(Reply(Outcome(s0, r), "InternalError"))
       ELSE LET s1 == Fx(SetTimer(s0, 0), "cancelTimer", "")
                s2 == activateImage(createTask(s1))
            IN Fx([Outcome(s2, r) EXCEPT
                       !.fwUpdateInProgress = FALSE], "clearInProgress", "")

\* A variant that tests objInfo.empty() in the place of objInfo.size() != 1.
afterGetDbusObjectAnyOwner(s, r, result) ==
    LET s0 == [s EXCEPT !.lookups[r] = @ - 1]
    IN IF result \in {"ec", "0"}
       THEN cleanUp(Reply(Outcome(s0, r), "InternalError"))
       ELSE LET s1 == Fx(SetTimer(s0, 0), "cancelTimer", "")
                s2 == createTask(activateImage(s1))
            IN Fx([Outcome(s2, r) EXCEPT
                       !.fwUpdateInProgress = FALSE], "clearInProgress", "")

\* The getDbusObject callback of request r.
afterGetDbusObject(s, r, result) ==
    LET s0 == [s EXCEPT !.lookups[r] = @ - 1]
    IN IF result # "1"
       THEN cleanUp(Reply(Outcome(s0, r), "InternalError"))
       ELSE LET s1 == Fx(SetTimer(s0, 0), "cancelTimer", "")
                s2 == createTask(activateImage(s1))
            IN Fx([Outcome(s2, r) EXCEPT
                       !.fwUpdateInProgress = FALSE], "clearInProgress", "")

\* The identifiers the error matcher compares the Message property with.
UnTarFailure == "xyz.openbmc_project.Software.Image.Error.UnTarFailure"
ManifestFileFailure ==
    "xyz.openbmc_project.Software.Image.Error.ManifestFileFailure"
ImageFailure == "xyz.openbmc_project.Software.Image.Error.ImageFailure"
AlreadyExists == "xyz.openbmc_project.Software.Version.Error.AlreadyExists"
BusyFailure == "xyz.openbmc_project.Software.Image.Error.BusyFailure"
\* Those, and identifiers it does not know.
MessageIds ==
    {UnTarFailure, ManifestFileFailure, ImageFailure, AlreadyExists,
     BusyFailure, "xyz.openbmc_project.Software.Image.Error.InternalFailure",
     "AlreadyExists", ""}

\* A variant that answers AlreadyExists with the invalid-upload message only.
classifyOneMessage(type) ==
    IF type = UnTarFailure THEN <<"InvalidUpload: Invalid archive">>
    ELSE IF type = ManifestFileFailure
    THEN <<"InvalidUpload: Invalid manifest">>
    ELSE IF type = ImageFailure
    THEN <<"InvalidUpload: Invalid image format">>
    ELSE IF type = AlreadyExists
    THEN <<"InvalidUpload: Image version already exists">>
    ELSE IF type = BusyFailure THEN <<"ResourceExhaustion">>
    ELSE <<"InternalError">>

\* The if/else chain on *type: the messages written to the response.
classify(type) ==
    IF type = UnTarFailure THEN <<"InvalidUpload: Invalid archive">>
    ELSE IF type = ManifestFileFailure
    THEN <<"InvalidUpload: Invalid manifest">>
    ELSE IF type = ImageFailure
    THEN <<"InvalidUpload: Invalid image format">>
    ELSE IF type = AlreadyExists
    THEN <<"InvalidUpload: Image version already exists",
           "ResourceAlreadyExists">>
    ELSE IF type = BusyFailure THEN <<"ResourceExhaustion">>
    ELSE <<"InternalError">>

RECURSIVE RespondAll(_, _)
RespondAll(s, msgs) ==
    IF msgs = <<>> THEN s
    ELSE RespondAll(Respond(s, Head(msgs)), Tail(msgs))

\* An InterfacesAdded signal under /xyz/openbmc_project/logging: without the
\* Logging.Entry interface ("noEntry"), or with it and a Message property
\* that is absent, of a type other than string ("other"), or a string.
LogSignals ==
    [kind : {"noEntry", "absent", "other"}, type : {""}]
        \cup [kind : {"string"}, type : MessageIds]

\* A variant that classifies the error and leaves the timer running.
errorMatcherKeepsTimer(s, r, sig) ==
    IF sig.kind \in {"noEntry", "absent"} THEN s
    ELSE IF sig.kind = "other" THEN s
    ELSE RespondAll(Outcome(s, r), classify(sig.type))

\* A variant that cancels the timer before it looks at the type of Message.
errorMatcherCancelsFirst(s, r, sig) ==
    IF sig.kind \in {"noEntry", "absent"} THEN s
    ELSE LET s1 == Fx(SetTimer(s, 0), "cancelTimer", "")
         IN IF sig.kind = "other" THEN s1
            ELSE RespondAll(Outcome(s1, r), classify(sig.type))

\* The fwUpdateErrorMatcher callback of request r.
errorMatcherCallback(s, r, sig) ==
    IF sig.kind \in {"noEntry", "absent"} THEN s
    ELSE IF sig.kind = "other" THEN s
    ELSE LET s1 == Fx(SetTimer(s, 0), "cancelTimer", "")
         IN RespondAll(Outcome(s1, r), classify(sig.type))

\* A variant that does nothing for a cancelled wait.
timerCallbackAbortNoOp(s, r, aborted) ==
    LET s1 == [s EXCEPT !.wait[r] = "none"]
    IN IF aborted THEN s1
       ELSE Reply(Outcome(cleanUp(s1), r), "InternalError")

\* A variant that runs cleanUp only for a cancelled wait.
timerCallbackExpiryKeepsSession(s, r, aborted) ==
    LET s1 == [s EXCEPT !.wait[r] = "none"]
    IN IF aborted THEN cleanUp(s1)
       ELSE Reply(Outcome(s1, r), "InternalError")

\* A variant that does not look at the error code.
timerCallbackIgnoresAbort(s, r, aborted) ==
    Reply(Outcome(cleanUp([s EXCEPT !.wait[r] = "none"]), r),
          "InternalError")

\* The async_wait handler of request r's timer; aborted: the error code is
\* operation_aborted.
timerCallback(s, r, aborted) ==
    LET s1 == cleanUp([s EXCEPT !.wait[r] = "none"])
    IN IF aborted THEN s1
       ELSE Reply(Outcome(s1, r), "InternalError")

\* What the SimpleUpdate handler makes of the request body.
SimpleUpdateBodies == {"unreadable", "noProtocol", "notTFTP", "noFile", "ok"}

simpleUpdate(s, r, body) ==
    IF body = "unreadable" THEN Respond(s, "readJsonAction")
    ELSE IF body \in {"noProtocol", "noFile"}
    THEN Respond(s, "ActionParameterValueTypeError")
    ELSE IF body = "notTFTP" THEN Respond(s, "ActionParameterNotSupported")
    ELSE LET s1 == Respond(monitorForSoftwareAvailable(s, r), "Success")
         IN Fx([s1 EXCEPT !.download[r] = TRUE], "DownloadViaTFTP", "")

\* The DownloadViaTFTP callback of request r.
afterDownload(s, r, ec) ==
    LET s1 == [s EXCEPT !.download[r] = FALSE]
    IN IF ec THEN cleanUp(Outcome(s1, r)) ELSE s1

ApplyTimes == {"Immediate", "OnReset", "Never"}

\* setApplyTime: a setProperty whose callback writes Success or InternalError
\* to the response and touches nothing else.
setApplyTime(s, at) ==
    IF at \in {"Immediate", "OnReset"} THEN Fx(s, "setApplyTime", at)
    ELSE Respond(s, "PropertyValueNotInList")

\* What updateMultipartContext finds in the parsed form.
MultipartForms ==
    {"noDisposition", "unreadableParameters", "noTarget", "twoTargets",
     "otherTarget", "noUpdateFile", "noUpdateParameters", "ok"}

updateMultipartContext(s, r, form, at, bad) ==
    IF form = "noDisposition" THEN s
    ELSE IF form = "unreadableParameters" THEN Respond(s, "readJson")
    ELSE IF form \in {"noTarget", "twoTargets"}
    THEN Respond(s, "PropertyValueFormatError")
    ELSE IF form = "otherTarget" THEN Respond(s, "PropertyValueNotInList")
    ELSE IF form \in {"noUpdateFile", "noUpdateParameters"}
    THEN Respond(s, "PropertyMissing")
    ELSE uploadImageFile(setApplyTime(s, at), r, bad)

\* The request of handleUpdateServicePost: its Content-Type, whether the
\* multipart body parses, the form, the apply time and the write's result.
Posts ==
    [type : {"octet-stream"}, parses : {TRUE}, form : {"ok"},
     at : {"OnReset"}, bad : BOOLEAN]
        \cup [type : {"multipart"}, parses : {FALSE}, form : {"ok"},
              at : {"OnReset"}, bad : {FALSE}]
        \cup [type : {"multipart"}, parses : {TRUE},
              form : MultipartForms \ {"ok"}, at : {"OnReset"}, bad : {FALSE}]
        \cup [type : {"multipart"}, parses : {TRUE}, form : {"ok"},
              at : ApplyTimes, bad : BOOLEAN]
        \cup [type : {"other"}, parses : {TRUE}, form : {"ok"},
              at : {"OnReset"}, bad : {FALSE}]

handleUpdateServicePost(s, r, p) ==
    IF p.type = "octet-stream"
    THEN uploadImageFile(monitorForSoftwareAvailable(s, r), r, p.bad)
    ELSE IF p.type = "multipart"
    THEN LET s1 == monitorForSoftwareAvailable(s, r)
         IN IF ~p.parses THEN Respond(s1, "InternalError")
            ELSE updateMultipartContext(s1, r, p.form, p.at, p.bad)
    ELSE Respond(s, "bad_request")

\* ---------------------------------------------------------------- Task

\* A variant that looks for the word anywhere in the string.
ContainsStr(str, suffix) ==
    \E k \in 1..(Len(str) - Len(suffix) + 1) :
        SubSeq(str, k, k + Len(suffix) - 1) = suffix

\* A variant that compares the start of the string.
StartsWith(str, suffix) ==
    /\ Len(str) >= Len(suffix)
    /\ SubSeq(str, 1, Len(suffix)) = suffix

\* boost::ends_with / std::string::ends_with
EndsWith(str, suffix) ==
    /\ Len(str) >= Len(suffix)
    /\ SubSeq(str, Len(str) - Len(suffix) + 1, Len(str)) = suffix

\* The Activation values of the platform, and values near them.
ActivationValues ==
    {"xyz.openbmc_project.Software.Activation.Activations.NotReady",
     "xyz.openbmc_project.Software.Activation.Activations.Invalid",
     "xyz.openbmc_project.Software.Activation.Activations.Ready",
     "xyz.openbmc_project.Software.Activation.Activations.Activating",
     "xyz.openbmc_project.Software.Activation.Activations.Active",
     "xyz.openbmc_project.Software.Activation.Activations.Failed",
     "xyz.openbmc_project.Software.Activation.Activations.Staged",
     "Failed", "ActiveSomething", "Inactive", "StagedActive", ""}

\* Progress is a uint8_t.
ProgressValues == {0, 50, 100, 255}

\* A PropertiesChanged signal on the Task's object: the interface that
\* changed and the property the callback looks for in it (Activation or
\* Progress): absent, of another type than the callback reads ("other"), or
\* a value.
TaskSignals ==
    [iface : {"Activation"}, kind : {"absent", "other"}, str : {""},
     num : {0}]
        \cup [iface : {"Activation"}, kind : {"value"},
              str : ActivationValues, num : {0}]
        \cup [iface : {"ActivationProgress"}, kind : {"absent", "other"},
              str : {""}, num : {0}]
        \cup [iface : {"ActivationProgress"}, kind : {"value"}, str : {""},
              num : ProgressValues]
        \cup [iface : {"Other"}, kind : {"absent"}, str : {""}, num : {0}]

\* A message of the Task's log; arg is the progress value of
\* TaskProgressChanged and 0 otherwise.
Msg(id, arg) == [id |-> id, arg |-> arg]
Emit(t, id, arg) == [t EXCEPT !.messages = Append(@, Msg(id, arg))]

\* taskData->extendTimer(d): deadline is the duration the callback passed
\* last.
extendTimer(t, d) == [t EXCEPT !.deadline = d]

\* The callback with one slip: "stagedCompletes" returns task::completed for
\* Staged, "absentIsError" treats a signal without the property as one with
\* a property of the wrong type, "progressResumes" sets the state back to
\* Running on progress, "errorContinues" returns !task::completed for an
\* error code, "progressKeepsLong" lets progress keep a longer deadline,
\* "wrongTypeIgnored" treats a property of the wrong type as an absent one.
taskCallbackWith(t, ec2, sig, slip) ==
    IF ec2 THEN [task |-> t, completed |-> slip # "errorContinues"]
    ELSE IF sig.iface = "Activation"
    THEN IF (sig.kind = "other" /\ slip # "wrongTypeIgnored")
              \/ (sig.kind = "absent" /\ slip = "absentIsError")
         THEN [task |-> Emit(t, "InternalError", 0), completed |-> TRUE]
         ELSE IF sig.kind # "value"
         THEN [task |-> t, completed |-> FALSE]
         ELSE IF EndsWith(sig.str, "Invalid") \/ EndsWith(sig.str, "Failed")
         THEN [task |-> Emit([t EXCEPT !.state = "Exception",
                                       !.status = "Warning"],
                             "TaskAborted", 0),
               completed |-> TRUE]
         ELSE IF EndsWith(sig.str, "Staged")
         THEN [task |-> extendTimer(Emit([t EXCEPT !.state = "Stopping"],
                                         "TaskPaused", 0), LongDeadline),
               completed |-> slip = "stagedCompletes"]
         ELSE IF EndsWith(sig.str, "Active")
         THEN [task |-> [Emit(t, "TaskCompletedOK", 0) EXCEPT
                             !.state = "Completed"],
               completed |-> TRUE]
         ELSE [task |-> t, completed |-> FALSE]
    ELSE IF sig.iface = "ActivationProgress"
    THEN IF sig.kind = "other" /\ slip # "wrongTypeIgnored"
         THEN [task |-> Emit(t, "InternalError", 0), completed |-> TRUE]
         ELSE IF sig.kind # "value"
         THEN [task |-> t, completed |-> FALSE]
         ELSE [task |-> extendTimer(
                   Emit([t EXCEPT !.percentComplete = sig.num,
                                  !.state = IF slip = "progressResumes"
                                            THEN "Running" ELSE @],
                        "TaskProgressChanged", sig.num),
                   IF slip = "progressKeepsLong" /\ t.deadline > ShortDeadline
                   THEN t.deadline ELSE ShortDeadline),
               completed |-> FALSE]
    ELSE [task |-> t, completed |-> FALSE]

taskCallbackStagedCompletes(t, ec2, sig) ==
    taskCallbackWith(t, ec2, sig, "stagedCompletes")
taskCallbackAbsentIsError(t, ec2, sig) ==
    taskCallbackWith(t, ec2, sig, "absentIsError")
taskCallbackProgressResumes(t, ec2, sig) ==
    taskCallbackWith(t, ec2, sig, "progressResumes")
taskCallbackErrorContinues(t, ec2, sig) ==
    taskCallbackWith(t, ec2, sig, "errorContinues")
taskCallbackProgressKeepsLong(t, ec2, sig) ==
    taskCallbackWith(t, ec2, sig, "progressKeepsLong")
taskCallbackWrongTypeIgnored(t, ec2, sig) ==
    taskCallbackWith(t, ec2, sig, "wrongTypeIgnored")

\* The callback given to createTask: the Task it leaves and what it returns
\* (task::completed or !task::completed).  ec2: the error code is set.
taskCallback(t, ec2, sig) ==
    IF ec2 THEN [task |-> t, completed |-> TRUE]
    ELSE IF sig.iface = "Activation"
    THEN IF sig.kind = "other"
         THEN [task |-> Emit(t, "InternalError", 0), completed |-> TRUE]
         ELSE IF sig.kind = "absent"
         THEN [task |-> t, completed |-> FALSE]
         ELSE IF EndsWith(sig.str, "Invalid") \/ EndsWith(sig.str, "Failed")
         THEN [task |-> Emit([t EXCEPT !.state = "Exception",
                                       !.status = "Warning"],
                             "TaskAborted", 0),
               completed |-> TRUE]
         ELSE IF EndsWith(sig.str, "Staged")
         THEN [task |-> extendTimer(Emit([t EXCEPT !.state = "Stopping"],
                                         "TaskPaused", 0), LongDeadline),
               completed |-> FALSE]
         ELSE IF EndsWith(sig.str, "Active")
         THEN [task |-> [Emit(t, "TaskCompletedOK", 0) EXCEPT
                             !.state = "Completed"],
               completed |-> TRUE]
         ELSE [task |-> t, completed |-> FALSE]
    ELSE IF sig.iface = "ActivationProgress"
    THEN IF sig.kind = "other"
         THEN [task |-> Emit(t, "InternalError", 0), completed |-> TRUE]
         ELSE IF sig.kind = "absent"
         THEN [task |-> t, completed |-> FALSE]
         ELSE [task |-> extendTimer(Emit([t EXCEPT !.percentComplete =
                                                       sig.num],
                                         "TaskProgressChanged", sig.num),
                                    ShortDeadline),
               completed |-> FALSE]
    ELSE [task |-> t, completed |-> FALSE]

\* The Task around its callback: a callback that reports completed ends the
\* Task, which releases its match and cancels its deadline.
runTask(t, ec2, sig) ==
    LET out == taskCallback(t, ec2, sig)
    IN IF out.completed
       THEN [out.task EXCEPT !.match = FALSE, !.deadline = 0]
       ELSE out.task

Init ==
    /\ fwUpdateInProgress = FALSE
    /\ fwUpdateMatcher = 0
    /\ fwUpdateErrorMatcher = 0
    /\ fwAvailableTimer = 0
    /\ wait = [r \in Reqs |-> "none"]
    /\ lookups = [r \in Reqs |-> 0]
    /\ download = [r \in Reqs |-> FALSE]
    /\ tasks = <<>>
    /\ waiting = {}

\* A request arrives as the first request that is not alive.
Free == {r \in Reqs : ~Alive(Cur, r)}
NewReq == CHOOSE r \in Free : \A q \in Free : r <= q

RECURSIVE Sum(_, _)
Sum(f, n) == IF n = 0 THEN 0 ELSE f[n] + Sum(f, n - 1)

\* When each callback can run.
CanExpire(r) == wait[r] = "pending"
CanTimerCallback(r) == wait[r] \in {"expired", "aborted"}
CanSoftwareMatch(hasActivation) ==
    /\ fwUpdateMatcher # 0
    /\ hasActivation => Len(tasks) + Sum(lookups, MaxReq) < MaxLookups
CanGetDbusObjectCallback(r) == lookups[r] > 0
CanErrorMatch == fwUpdateErrorMatcher # 0
CanDownloadCallback(r) == download[r]

\* POST /redfish/v1/UpdateService/update
HandleUpdateServicePost ==
    \E p \in Posts :
        /\ Free # {}
        /\ Commit(handleUpdateServicePost(Cur, NewReq, p))

\* POST /redfish/v1/UpdateService/Actions/UpdateService.SimpleUpdate
SimpleUpdate ==
    \E body \in SimpleUpdateBodies :
        /\ Free # {}
        /\ Commit(simpleUpdate(Cur, NewReq, body))

DownloadCallback ==
    \E r \in Reqs, ec \in BOOLEAN :
        /\ CanDownloadCallback(r)
        /\ Commit(afterDownload(Cur, r, ec))

\* The availability timer of request r reaches its expiry time: its handler
\* is queued with no error.
TimerExpire ==
    \E r \in Reqs :
        /\ CanExpire(r)
        /\ Commit([Cur EXCEPT !.wait[r] = "expired"])

TimerCallback ==
    \E r \in Reqs :
        /\ CanTimerCallback(r)
        /\ Commit(timerCallback(Cur, r, wait[r] = "aborted"))

SoftwareMatch ==
    \E hasActivation \in BOOLEAN :
        /\ CanSoftwareMatch(hasActivation)
        /\ Commit(softwareInterfaceAdded(Cur, fwUpdateMatcher, hasActivation))

GetDbusObjectCallback ==
    \E r \in Reqs, result \in LookupResults :
        /\ CanGetDbusObjectCallback(r)
        /\ Commit(afterGetDbusObject(Cur, r, result))

ErrorMatch ==
    \E sig \in LogSignals :
        /\ CanErrorMatch
        /\ Commit(errorMatcherCallback(Cur, fwUpdateErrorMatcher, sig))

Next ==
    \/ HandleUpdateServicePost
    \/ SimpleUpdate
    \/ DownloadCallback
    \/ TimerExpire
    \/ TimerCallback
    \/ SoftwareMatch
    \/ GetDbusObjectCallback
    \/ ErrorMatch

\* A Task can take a signal while it holds its match.
CanTaskSignal(i) == tasks[i].match /\ Len(tasks[i].messages) < MaxMessages

NoSignal == [iface |-> "Other", kind |-> "absent", str |-> "", num |-> 0]

Idle ==
    UNCHANGED <<fwUpdateInProgress, fwUpdateMatcher, fwUpdateErrorMatcher,
                fwAvailableTimer, wait, lookups, download, waiting>>

\* A PropertiesChanged signal reaches Task i.
TaskPropertiesChanged ==
    \E i \in 1..Len(tasks), sig \in TaskSignals :
        /\ CanTaskSignal(i)
        /\ tasks' = [tasks EXCEPT ![i] = runTask(@, FALSE, sig)]
        /\ Idle

\* The callback of Task i is called with an error code.
TaskError ==
    \E i \in 1..Len(tasks) :
        /\ tasks[i].match
        /\ tasks' = [tasks EXCEPT ![i] = runTask(@, TRUE, NoSignal)]
        /\ Idle

\* The session after one update was handed off and its timer's handler ran.
InitTask ==
    /\ fwUpdateInProgress = FALSE
    /\ fwUpdateMatcher = 0
    /\ fwUpdateErrorMatcher = 0
    /\ fwAvailableTimer = 0
    /\ wait = [r \in Reqs |-> "none"]
    /\ lookups = [r \in Reqs |-> 0]
    /\ download = [r \in Reqs |-> FALSE]
    /\ tasks = <<NewTask>>
    /\ waiting = {}

NextTask ==
    \/ TaskPropertiesChanged
    \/ TaskError

SpecTask == InitTask /\ [][NextTask]_vars

Spec == Init /\ [][Next]_vars

\* The event loop runs every handler it has queued, and a timer that is
\* waiting reaches its expiry time.
TimerFairness ==
    \A r \in Reqs :
        /\ WF_vars(CanExpire(r) /\ Commit([Cur EXCEPT !.wait[r] = "expired"]))
        /\ WF_vars(CanTimerCallback(r)
                       /\ Commit(timerCallback(Cur, r, wait[r] = "aborted")))

SpecFair == Spec /\ TimerFairness

\* A Task's deadline fires while the Task lives, and its firing calls the
\* callback with an error code.
SpecTaskFair == SpecTask /\ WF_vars(TaskError)

\* ------------------------------------------------------------- claims

StringSignal(type) == [kind |-> "string", type |-> type]
NonStringSignal == [kind |-> "other", type |-> ""]
ActivationSignal(str) ==
    [iface |-> "Activation", kind |-> "value", str |-> str, num |-> 0]

\* The state as a handler without a response finds it (asyncResp is nullptr).
Detached == [Cur EXCEPT !.asyncResp = FALSE]

\* No wait is running.
NoPendingWait(s) == \A q \in Reqs : s.wait[q] # "pending"

\* C1: monitorForSoftwareAvailable, called while fwUpdateInProgress is true,
\* writes ServiceTemporarilyUnavailable with the retry-after hint 30 to the
\* response and does nothing else: the guard, both matchers, the timer and
\* every wait are as they were.  Without a response it does nothing at all.
C1_BusyBeginChangesNothing ==
    fwUpdateInProgress =>
        \A r \in Free :
            LET s == monitorForSoftwareAvailable(Cur, r)
                d == monitorForSoftwareAvailable(Detached, r)
            IN /\ Session(s) = Session(Cur)
               /\ s.fx = <<<<"respond", "ServiceTemporarilyUnavailable 30">>>>
               /\ s.waiting = waiting
               /\ Session(d) = Session(Cur)
               /\ d.fx = <<>>

C1_Witness ==
    /\ fwUpdateInProgress
    /\ fwUpdateMatcher # 0
    /\ wait[fwUpdateMatcher] = "pending"
    /\ Free # {}
    /\ Written(monitorForSoftwareAvailable(Cur, NewReq)) =
           <<"ServiceTemporarilyUnavailable 30">>

\* C2: a begin attempt is admitted only if no earlier admitted update is
\* still waiting for its outcome, so that at most one update waits at a time.
C2_AdmittedOnlyWhenNoneWaits ==
    /\ Cardinality(waiting) <= 1
    /\ \A r \in Free :
           monitorForSoftwareAvailable(Cur, r).fwUpdateInProgress
               /\ ~fwUpdateInProgress
           => waiting = {}

\* C3: when the owner lookup returns exactly one service the callback cancels
\* the availability timer, then issues the activation request, then creates
\* the Task and writes its location to the response, and clears
\* fwUpdateInProgress last.  Without a response it creates no Task and
\* does the rest in the same order.
C3_HandoffOrder ==
    \A r \in Reqs :
        CanGetDbusObjectCallback(r) =>
            LET s == afterGetDbusObject(Cur, r, "1")
                d == afterGetDbusObject(Detached, r, "1")
            IN /\ s.fx = << <<"cancelTimer", "">>, <<"activateImage", "">>,
                            <<"createTask", "">>, <<"respond", "TaskLocation">>,
                            <<"clearInProgress", "">> >>
               /\ s.fwAvailableTimer = 0
               /\ NoPendingWait(s)
               /\ Len(s.tasks) = Len(tasks) + 1
               /\ ~s.fwUpdateInProgress
               /\ d.fx = << <<"cancelTimer", "">>, <<"activateImage", "">>,
                            <<"clearInProgress", "">> >>
               /\ d.tasks = tasks
               /\ ~d.fwUpdateInProgress

C3_Witness ==
    /\ Len(tasks) > 0
    /\ ~fwUpdateInProgress
    /\ fwAvailableTimer = 0
    /\ \E r \in Reqs : wait[r] = "aborted" /\ fwUpdateMatcher = r

\* C4: the handler of a timer that expired writes InternalError to the
\* response (when it holds one) and runs cleanUp: fwUpdateInProgress is
\* false and both matchers are released afterwards.
C4_ExpiryCleansUp ==
    \A r \in Reqs :
        wait[r] = "expired" =>
            LET s == timerCallback(Cur, r, FALSE)
                d == timerCallback(Detached, r, FALSE)
            IN /\ Written(s) = <<"InternalError">>
               /\ Written(d) = <<>>
               /\ Session(d) = Session(s)
               /\ Count(s, "cleanUp") = 1
               /\ ~s.fwUpdateInProgress
               /\ s.fwUpdateMatcher = 0
               /\ s.fwUpdateErrorMatcher = 0

C4_Witness ==
    \E r \in Reqs :
        /\ fwAvailableTimer = r
        /\ wait[r] = "none"
        /\ r \notin waiting
        /\ ~fwUpdateInProgress
        /\ fwUpdateMatcher = 0
        /\ fwUpdateErrorMatcher = 0

\* C5 as claimed: the timer is cancelled in the step in which the awaited
\* object appears, so that no timer is running, and none can expire, once
\* the object-added event of its update has been seen.
C5_CancelledWhenObjectAppears ==
    /\ \A r \in Reqs : lookups[r] > 0 => wait[r] # "pending"
    /\ CanSoftwareMatch(TRUE) =>
           softwareInterfaceAdded(Cur, fwUpdateMatcher, TRUE).fwAvailableTimer = 0

\* C5 as amended: the timer's handler reports InternalError exactly when the
\* timer expired before it was cancelled; the timer is cancelled in the step
\* in which the owner lookup returns exactly one service or in which an
\* error-log signal with a string Message is handled, and not in the step in
\* which the object-added signal is seen.
C5_CancelledByLookupOrError ==
    /\ \A r \in Reqs :
           /\ wait[r] = "pending" => fwAvailableTimer = r
           /\ CanTimerCallback(r) =>
                  (Written(timerCallback(Cur, r, wait[r] = "aborted")) =
                       <<"InternalError">>
                   <=> wait[r] = "expired")
           /\ CanGetDbusObjectCallback(r) =>
                  LET s == afterGetDbusObject(Cur, r, "1")
                  IN s.fwAvailableTimer = 0 /\ NoPendingWait(s)
    /\ CanErrorMatch =>
           \A type \in MessageIds :
               LET s == errorMatcherCallback(Cur, fwUpdateErrorMatcher,
                                             StringSignal(type))
               IN s.fwAvailableTimer = 0 /\ NoPendingWait(s)
    /\ CanSoftwareMatch(TRUE) =>
           LET s == softwareInterfaceAdded(Cur, fwUpdateMatcher, TRUE)
           IN s.fwAvailableTimer = fwAvailableTimer /\ s.wait = wait

C5_Witness ==
    \E r \in Reqs :
        /\ wait[r] = "aborted"
        /\ fwAvailableTimer = 0
        /\ fwUpdateInProgress
        /\ fwUpdateErrorMatcher = r
        /\ r \notin waiting

C7_LookupFailureCleansUp ==
    \A r \in Reqs, result \in LookupResults \ {"1"} :
        CanGetDbusObjectCallback(r) =>
            LET s == afterGetDbusObject(Cur, r, result)
                d == afterGetDbusObject(Detached, r, result)
            IN /\ s.fx = << <<"respond", "InternalError">>, <<"cleanUp", "">> >>
               /\ d.fx = << <<"cleanUp", "">> >>
               /\ s.tasks = tasks
               /\ d.tasks = tasks
               /\ ~s.fwUpdateInProgress
               /\ s.fwUpdateMatcher = 0
               /\ s.fwUpdateErrorMatcher = 0

C7_Witness ==
    \E r \in Reqs :
        /\ lookups[r] > 0
        /\ fwUpdateInProgress
        /\ fwUpdateMatcher = r
        /\ afterGetDbusObject(Cur, r, "2").fwUpdateMatcher = 0

\* C8: the error matcher answers every string identifier: UnTarFailure,
\* ManifestFileFailure and ImageFailure with one invalid-upload message each,
\* with a reason of its own; AlreadyExists with an invalid-upload and a
\* resource-already-exists message; BusyFailure with a resource-exhaustion
\* message; every other string with one InternalError.
C8_ClassifierTotal ==
    CanErrorMatch =>
        \A type \in MessageIds :
            LET w == Written(errorMatcherCallback(Cur, fwUpdateErrorMatcher,
                                                  StringSignal(type)))
            IN CASE type = UnTarFailure ->
                        w = <<"InvalidUpload: Invalid archive">>
                 [] type = ManifestFileFailure ->
                        w = <<"InvalidUpload: Invalid manifest">>
                 [] type = ImageFailure ->
                        w = <<"InvalidUpload: Invalid image format">>
                 [] type = AlreadyExists ->
                        w = <<"InvalidUpload: Image version already exists",
                              "ResourceAlreadyExists">>
                 [] type = BusyFailure -> w = <<"ResourceExhaustion">>
                 [] OTHER -> w = <<"InternalError">>

C8_Witness ==
    /\ CanErrorMatch
    /\ fwUpdateInProgress
    /\ Len(Written(errorMatcherCallback(Cur, fwUpdateErrorMatcher,
                                        StringSignal(AlreadyExists)))) = 2

\* C9: an error-log signal whose Message is not a string changes nothing:
\* the timer keeps running, the guard and both matchers stay, and nothing is
\* written to the response.
C9_NonStringMessageIgnored ==
    CanErrorMatch =>
        LET s == errorMatcherCallback(Cur, fwUpdateErrorMatcher,
                                      NonStringSignal)
        IN Session(s) = Session(Cur) /\ s.fx = <<>> /\ s.waiting = waiting

C9_Witness ==
    /\ CanErrorMatch
    /\ wait[fwUpdateErrorMatcher] = "pending"
    /\ fwAvailableTimer = fwUpdateErrorMatcher
    /\ errorMatcherCallback(Cur, fwUpdateErrorMatcher, NonStringSignal).wait
           [fwUpdateErrorMatcher] = "pending"

\* The Activation values that end with Invalid or Failed.
AbortValues ==
    {"xyz.openbmc_project.Software.Activation.Activations.Invalid",
     "xyz.openbmc_project.Software.Activation.Activations.Failed", "Failed"}

\* C10: an Activation value that ends with Invalid or Failed makes the
\* Task's state Exception and its status Warning, appends a task-aborted
\* message, and the callback reports completed, which ends the Task.
C10_InvalidOrFailedAborts ==
    \A i \in 1..Len(tasks), str \in AbortValues :
        CanTaskSignal(i) =>
            LET out == taskCallback(tasks[i], FALSE, ActivationSignal(str))
            IN /\ out.completed
               /\ out.task.state = "Exception"
               /\ out.task.status = "Warning"
               /\ out.task.messages =
                      Append(tasks[i].messages, Msg("TaskAborted", 0))
               /\ out.task.percentComplete = tasks[i].percentComplete

C10_Witness ==
    \E i \in 1..Len(tasks) :
        /\ tasks[i].state = "Exception"
        /\ tasks[i].status = "Warning"
        /\ Len(tasks[i].messages) > 1
        /\ tasks[i].messages[Len(tasks[i].messages)] = Msg("TaskAborted", 0)

\* The Activation values that end with Staged, and those that end with
\* Active.
StagedValues ==
    {"xyz.openbmc_project.Software.Activation.Activations.Staged"}
ActiveValues ==
    {"xyz.openbmc_project.Software.Activation.Activations.Active",
     "StagedActive"}

\* C11: an Activation value that ends with Staged makes the Task's state
\* Stopping, appends a task-paused message and re-arms the deadline to five
\* hours; the callback reports not completed.
C11_StagedPauses ==
    \A i \in 1..Len(tasks), str \in StagedValues :
        CanTaskSignal(i) =>
            LET out == taskCallback(tasks[i], FALSE, ActivationSignal(str))
            IN /\ ~out.completed
               /\ out.task.state = "Stopping"
               /\ out.task.messages =
                      Append(tasks[i].messages, Msg("TaskPaused", 0))
               /\ out.task.deadline = LongDeadline
               /\ out.task.status = tasks[i].status
               /\ out.task.percentComplete = tasks[i].percentComplete

C11_Witness ==
    \E i \in 1..Len(tasks) :
        /\ tasks[i].state = "Stopping"
        /\ tasks[i].deadline = LongDeadline
        /\ tasks[i].match
        /\ tasks[i].messages # <<>>
        /\ tasks[i].messages[Len(tasks[i].messages)] = Msg("TaskPaused", 0)

\* C12: an Activation value that ends with Active makes the Task's state
\* Completed, appends a task-completed-OK message and the callback reports
\* completed; ActiveSomething, which holds Active in the middle, and
\* Inactive change nothing.
C12_ActiveSuffixCompletes ==
    \A i \in 1..Len(tasks) :
        CanTaskSignal(i) =>
            /\ \A str \in ActiveValues :
                   LET out == taskCallback(tasks[i], FALSE,
                                           ActivationSignal(str))
                   IN /\ out.completed
                      /\ out.task.state = "Completed"
                      /\ out.task.messages =
                             Append(tasks[i].messages,
                                    Msg("TaskCompletedOK", 0))
                      /\ out.task.status = tasks[i].status
            /\ \A str \in {"ActiveSomething", "Inactive"} :
                   taskCallback(tasks[i], FALSE, ActivationSignal(str)) =
                       [task |-> tasks[i], completed |-> FALSE]

C12_Witness ==
    \E i \in 1..Len(tasks) :
        /\ tasks[i].state = "Completed"
        /\ tasks[i].status = "OK"
        /\ ~tasks[i].match
        /\ tasks[i].messages[Len(tasks[i].messages)] =
               Msg("TaskCompletedOK", 0)

\* The Activation values that end with none of the four words.
OtherValues ==
    ActivationValues \ (AbortValues \cup StagedValues \cup ActiveValues)

\* C13: a signal of the Activation interface whose Activation value ends
\* with none of Invalid, Failed, Staged, Active, or which carries no
\* Activation property, changes nothing of the Task and the callback reports
\* not completed.
C13_OtherValueNoTransition ==
    \A i \in 1..Len(tasks) :
        CanTaskSignal(i) =>
            /\ \A str \in OtherValues :
                   taskCallback(tasks[i], FALSE, ActivationSignal(str)) =
                       [task |-> tasks[i], completed |-> FALSE]
            /\ taskCallback(tasks[i], FALSE,
                            [iface |-> "Activation", kind |-> "absent",
                             str |-> "", num |-> 0]) =
                   [task |-> tasks[i], completed |-> FALSE]

C13_Witness ==
    \E i \in 1..Len(tasks) :
        /\ CanTaskSignal(i)
        /\ tasks[i].state = "Stopping"
        /\ tasks[i].percentComplete = 50
        /\ Cardinality(OtherValues) >= 5
        /\ runTask(tasks[i], FALSE, ActivationSignal("ActiveSomething")) =
               tasks[i]

ProgressSignal(num) ==
    [iface |-> "ActivationProgress", kind |-> "value", str |-> "",
     num |-> num]

\* C14: a Progress signal sets percentComplete to the signalled value,
\* appends a progress-changed message that carries the value and re-arms the
\* deadline to five minutes; state and status stay, in Running and in
\* Stopping, and the callback reports not completed.
C14_ProgressUpdates ==
    \A i \in 1..Len(tasks), num \in ProgressValues :
        CanTaskSignal(i) =>
            LET out == taskCallback(tasks[i], FALSE, ProgressSignal(num))
            IN /\ ~out.completed
               /\ out.task.percentComplete = num
               /\ out.task.messages =
                      Append(tasks[i].messages,
                             Msg("TaskProgressChanged", num))
               /\ out.task.deadline = ShortDeadline
               /\ out.task.state = tasks[i].state
               /\ out.task.status = tasks[i].status

C14_Witness ==
    \E i \in 1..Len(tasks) :
        /\ tasks[i].state = "Stopping"
        /\ tasks[i].percentComplete = 50
        /\ tasks[i].deadline = ShortDeadline
        /\ tasks[i].match
        /\ tasks[i].messages[Len(tasks[i].messages)] =
               Msg("TaskProgressChanged", 50)

\* C15: a Task whose callback is called with an error code ends with state
\* Completed, in Running and in Stopping alike, and nothing else of it
\* changes.
C15_DeliveryErrorEndsCompleted ==
    \A i \in 1..Len(tasks) :
        tasks[i].match =>
            LET end == runTask(tasks[i], TRUE, NoSignal)
            IN /\ end.state = "Completed"
               /\ ~end.match
               /\ end.status = tasks[i].status
               /\ end.messages = tasks[i].messages
               /\ end.percentComplete = tasks[i].percentComplete

\* The moves of a Task's state.
TaskMoves ==
    {<<"Running", "Running">>, <<"Running", "Stopping">>,
     <<"Running", "Completed">>, <<"Running", "Exception">>,
     <<"Stopping", "Stopping">>, <<"Stopping", "Completed">>,
     <<"Stopping", "Exception">>, <<"Completed", "Completed">>,
     <<"Exception", "Exception">>}

\* C16: the state of a Task moves only from Running to Stopping, Completed
\* or Exception and from Stopping to Completed or Exception, and a signal
\* that reaches the callback of a Task in Completed or Exception (one
\* delivered just after its match was released) changes neither state nor
\* status, percentComplete or messages.
C16_TerminalIsFinal ==
    \A i \in 1..Len(tasks), sig \in TaskSignals :
        LET out == taskCallback(tasks[i], FALSE, sig)
        IN /\ <<tasks[i].state, out.task.state>> \in TaskMoves
           /\ tasks[i].state \in {"Completed", "Exception"} =>
                  /\ out.task.state = tasks[i].state
                  /\ out.task.status = tasks[i].status
                  /\ out.task.percentComplete = tasks[i].percentComplete
                  /\ out.task.messages = tasks[i].messages

\* C17: percentComplete is within 0..100 in every state of a Task, and a
\* Progress value outside 0..100 is answered with InternalError and leaves
\* percentComplete and state as they were.
C17_PercentInRange ==
    \A i \in 1..Len(tasks) :
        /\ tasks[i].percentComplete \in 0..100
        /\ CanTaskSignal(i) =>
               \A num \in ProgressValues \ (0..100) :
                   LET out == taskCallback(tasks[i], FALSE,
                                           ProgressSignal(num))
                   IN /\ out.task.percentComplete = tasks[i].percentComplete
                      /\ out.task.state = tasks[i].state
                      /\ out.task.messages =
                             Append(tasks[i].messages,
                                    Msg("InternalError", 0))

\* The state a handler leaves, without the list of what it did.
Left(s) == [s EXCEPT !.fx = <<>>]

\* C18: after cleanUp, called in any state, fwUpdateInProgress is false,
\* both matchers are released and the timer is released with no wait left
\* running; so it is after the lookup callback that fails.
C18_CleanUpReleasesTimer ==
    /\ LET s == cleanUp(Cur)
       IN /\ ~s.fwUpdateInProgress
          /\ s.fwUpdateMatcher = 0
          /\ s.fwUpdateErrorMatcher = 0
          /\ s.fwAvailableTimer = 0
          /\ NoPendingWait(s)
    /\ \A r \in Reqs :
           CanGetDbusObjectCallback(r) =>
               LET s == afterGetDbusObject(Cur, r, "ec")
               IN s.fwAvailableTimer = 0 /\ NoPendingWait(s)

\* C19: cleanUp is idempotent: called twice it leaves the state it leaves
\* when called once, whether the timer is dropped before, between or after
\* the calls, and a handler that calls cleanUp leaves the same session after
\* cleanUp as without it.
C19_CleanUpIdempotent ==
    LET once == cleanUp(Cur)
    IN /\ Left(cleanUp(once)) = Left(once)
       /\ Left(cleanUp(SetTimer(once, 0))) = Left(SetTimer(once, 0))
       /\ Left(cleanUp(SetTimer(Cur, 0))) = Left(SetTimer(once, 0))
       /\ Count(cleanUp(once), "cleanUp") = 2
       /\ \A r \in Reqs :
              CanTimerCallback(r) =>
                  Session(timerCallback(once, r, wait[r] = "aborted")) =
                      Session(timerCallback(Cur, r, wait[r] = "aborted"))

C19_Witness ==
    \E r \in Reqs :
        /\ wait[r] = "expired"
        /\ ~fwUpdateInProgress
        /\ fwUpdateMatcher = 0
        /\ fwUpdateErrorMatcher = 0
        /\ lookups[r] = 0
        /\ Session(timerCallback(Cur, r, FALSE)) =
               Session([Cur EXCEPT !.wait[r] = "none"])

\* C20: between callbacks fwUpdateInProgress is true exactly when one of the
\* two matchers or the timer is set, and the three are set together and
\* released together.
C20_GuardIffResources ==
    /\ fwUpdateInProgress <=>
           (fwUpdateMatcher # 0 \/ fwUpdateErrorMatcher # 0
                \/ fwAvailableTimer # 0)
    /\ (fwUpdateMatcher = 0) = (fwUpdateErrorMatcher = 0)
    /\ (fwUpdateMatcher = 0) = (fwAvailableTimer = 0)

\* The callbacks of request r that are still to run in state s: for each
\* the number of times it calls cleanUp.
LaterCleanUps(s, r) ==
    (IF s.wait[r] # "none"
     THEN {Count(timerCallback(Left(s), r, aborted), "cleanUp") :
               aborted \in BOOLEAN}
     ELSE {})
    \cup (IF s.lookups[r] > 0
          THEN {Count(afterGetDbusObject(Left(s), r, result), "cleanUp") :
                    result \in LookupResults}
          ELSE {})
    \cup (IF s.download[r]
          THEN {Count(afterDownload(Left(s), r, TRUE), "cleanUp")}
          ELSE {})

\* A handler of request r that ends the update without a Task left state s:
\* it called cleanUp once and no callback of r that is still to run calls it
\* again.
CleanedOnce(s, r) ==
    Count(s, "cleanUp") = 1 /\ LaterCleanUps(s, r) \subseteq {0}

OctetStream(bad) ==
    [type |-> "octet-stream", parses |-> TRUE, form |-> "ok",
     at |-> "OnReset", bad |-> bad]

\* C21: every way an admitted update ends without a Task (the owner lookup
\* fails or returns no or several services, the timer expires, the image
\* write fails, the download request fails) calls cleanUp exactly once for
\* that update.
C21_CleanUpExactlyOnce ==
    /\ \A r \in waiting :
           /\ CanGetDbusObjectCallback(r) =>
                  \A result \in LookupResults \ {"1"} :
                      CleanedOnce(afterGetDbusObject(Cur, r, result), r)
           /\ wait[r] = "expired" =>
                  CleanedOnce(timerCallback(Cur, r, FALSE), r)
           /\ CanDownloadCallback(r) =>
                  CleanedOnce(afterDownload(Cur, r, TRUE), r)
    /\ Free # {} /\ ~fwUpdateInProgress =>
           CleanedOnce(handleUpdateServicePost(Cur, NewReq,
                                               OctetStream(TRUE)), NewReq)

\* C22: the matchers of an update and the match of its Task are never held
\* together: the lookup callback that creates the Task leaves neither
\* matcher of its update set.
C22_MatchersGoneAtHandoff ==
    \A r \in Reqs :
        CanGetDbusObjectCallback(r) =>
            LET s == afterGetDbusObject(Cur, r, "1")
            IN s.tasks[Len(s.tasks)].match =>
                   s.fwUpdateMatcher # r /\ s.fwUpdateErrorMatcher # r

\* C23: once the timer's handler has reported the timeout of an update,
\* no signal reaches a matcher of the update and a lookup result that
\* arrives later issues no activation request, creates no Task and writes
\* nothing to the response.
C23_LateResultsIgnored ==
    \A r \in Reqs :
        wait[r] = "expired" =>
            LET s == Left(timerCallback(Cur, r, FALSE))
            IN /\ s.fwUpdateMatcher # r
               /\ s.fwUpdateErrorMatcher # r
               /\ s.lookups[r] > 0 =>
                      \A result \in LookupResults :
                          LET u == afterGetDbusObject(s, r, result)
                          IN /\ Count(u, "activateImage") = 0
                             /\ u.tasks = s.tasks
                             /\ Written(u) = <<>>

\* The multipart requests that fail validation.
InvalidMultiparts ==
    {p \in Posts :
        /\ p.type = "multipart"
        /\ p.parses
        /\ p.form \in {"noTarget", "twoTargets", "otherTarget",
                       "noUpdateFile", "noUpdateParameters"}}

\* C24: a multipart upload that fails validation is rejected before anything
\* is armed: no image is written and the guard, the timer and both matchers
\* are as they were.
C24_InvalidMultipartArmsNothing ==
    Free # {} /\ ~fwUpdateInProgress =>
        \A p \in InvalidMultiparts :
            LET s == handleUpdateServicePost(Cur, NewReq, p)
            IN /\ Count(s, "writeImage") = 0
               /\ Written(s) # <<>>
               /\ Session(s) = Session(Cur)

\* C25: a request that is refused as busy does nothing further: no image is
\* written, no download is requested, and no callback of it changes the
\* guard or the matchers of the update in flight.
C25_BusyRequestDoesNothing ==
    Free # {} /\ fwUpdateInProgress =>
        /\ \A bad \in BOOLEAN :
               LET s == handleUpdateServicePost(Cur, NewReq, OctetStream(bad))
               IN /\ Count(s, "writeImage") = 0
                  /\ Session(s) = Session(Cur)
        /\ LET s == simpleUpdate(Cur, NewReq, "ok")
           IN /\ Count(s, "DownloadViaTFTP") = 0
              /\ Session(s) = Session(Cur)
              /\ s.download[NewReq] =>
                     \A ec \in BOOLEAN :
                         Session(afterDownload(s, NewReq, ec)) = Session(Cur)

\* C26: the timer handler or the lookup callback of an earlier update never
\* changes the guard, the matchers or the timer of the update that holds
\* the session now.
C26_StaleCallbackHarmless ==
    \A r \in Reqs :
        fwUpdateMatcher \notin {0, r} =>
            /\ CanTimerCallback(r) =>
                   LET s == timerCallback(Cur, r, wait[r] = "aborted")
                   IN /\ s.fwUpdateInProgress = fwUpdateInProgress
                      /\ s.fwUpdateMatcher = fwUpdateMatcher
                      /\ s.fwUpdateErrorMatcher = fwUpdateErrorMatcher
                      /\ s.fwAvailableTimer = fwAvailableTimer
            /\ CanGetDbusObjectCallback(r) =>
                   \A result \in LookupResults :
                       Session(afterGetDbusObject(Cur, r, result)) =
                           Session(Cur)

\* C29: an update gets at most one activation request and at most one Task:
\* once a lookup of the update has handed it off, no signal can start
\* another lookup for it, and a lookup of it that is still in flight issues
\* no activation request and creates no Task.
C29_OneTaskPerUpdate ==
    \A r \in Reqs :
        CanGetDbusObjectCallback(r) =>
            LET s == Left(afterGetDbusObject(Cur, r, "1"))
            IN /\ s.fwUpdateMatcher # r
               /\ s.lookups[r] > 0 =>
                      LET u == afterGetDbusObject(s, r, "1")
                      IN /\ Count(u, "activateImage") = 0
                         /\ Count(u, "createTask") = 0
                         /\ u.tasks = s.tasks

\* The guard is released: fwUpdateInProgress is false and both matchers are
\* released.
Released ==
    ~fwUpdateInProgress /\ fwUpdateMatcher = 0 /\ fwUpdateErrorMatcher = 0

\* C27: when timers expire and queued handlers run, every update that was
\* admitted, and holds the guard or waits for its outcome, is followed by a
\* state in which the guard is released.
C27_GuardEventuallyReleased ==
    \A r \in Reqs :
        (fwUpdateMatcher = r \/ fwUpdateErrorMatcher = r \/ r \in waiting
             \/ fwUpdateInProgress)
            ~> Released

C27_Witness ==
    \E r \in Reqs :
        /\ fwUpdateInProgress
        /\ fwUpdateMatcher = r
        /\ r \notin waiting
        /\ wait[r] = "aborted"
        /\ Len(tasks) = 0
        /\ lookups[r] = 0

\* C28: a Task that was created is followed by a state in which its match
\* is released: when no signal ends it, its deadline fires, the callback is
\* called with an error code and reports completed.
C28_TaskEventuallyEnds == tasks[1].match ~> ~tasks[1].match

C28_Witness ==
    /\ ~tasks[1].match
    /\ tasks[1].deadline = 0
    /\ tasks[1].state = "Stopping"
    /\ Len(tasks[1].messages) = 1
    /\ tasks[1].messages[1] = Msg("TaskPaused", 0)

\* C30: a Progress signal leaves the Task's deadline at five minutes in
\* every state; a Task in Stopping whose deadline is the five hours that
\* Staged set has it replaced by the five minutes.
C30_ProgressShortensDeadline ==
    \A i \in 1..Len(tasks), num \in ProgressValues :
        CanTaskSignal(i) =>
            LET after == taskCallback(tasks[i], FALSE,
                                      ProgressSignal(num)).task
            IN /\ after.deadline = ShortDeadline
               /\ (tasks[i].state = "Stopping"
                       /\ tasks[i].deadline = LongDeadline
                   => after.state = "Stopping" /\ after.deadline < LongDeadline)

C30_Witness ==
    \E i \in 1..Len(tasks) :
        /\ tasks[i].match
        /\ tasks[i].state = "Stopping"
        /\ tasks[i].deadline = ShortDeadline
        /\ Len(tasks[i].messages) = 2
        /\ tasks[i].messages[1] = Msg("TaskPaused", 0)
        /\ tasks[i].messages[2].id = "TaskProgressChanged"

\* A signal of interface iface whose property is of another type than the
\* callback reads.
WrongTypeSignal(iface) ==
    [iface |-> iface, kind |-> "other", str |-> "", num |-> 0]

\* C31: a signal with an Activation property that is not a string, or a
\* Progress property that is not a uint8_t, appends InternalError to the
\* Task's messages and the callback reports completed; state, status,
\* percentComplete and deadline stay, in Running and in Stopping.
C31_WrongTypeEndsTask ==
    \A i \in 1..Len(tasks), iface \in {"Activation", "ActivationProgress"} :
        CanTaskSignal(i) =>
            LET out == taskCallback(tasks[i], FALSE, WrongTypeSignal(iface))
            IN /\ out.completed
               /\ out.task =
                      [tasks[i] EXCEPT
                           !.messages = Append(@, Msg("InternalError", 0))]

C31_Witness ==
    \E i \in 1..Len(tasks) :
        /\ ~tasks[i].match
        /\ tasks[i].state = "Stopping"
        /\ tasks[i].status = "OK"
        /\ tasks[i].percentComplete = 50
        /\ Len(tasks[i].messages) = 3
        /\ tasks[i].messages[3] = Msg("InternalError", 0)
====
